---- MODULE Spec2Model ----
(***************************************************************************)
(* mst-async-task: the lifecycle of AsyncTask records driven by runTask(). *)
(*                                                                         *)
(* The program runs on one JavaScript thread.  A step of this model is one *)
(* synchronous job of that thread: an outside call (a task action,         *)
(* abort(), reset(), destroy()), a timer callback, or the continuation of  *)
(* an await / yield.  Everything a job calls synchronously (the abort      *)
(* listeners, a nested runTask() started inside an exec callback, the body *)
(* of a generator up to its next yield) is part of the same step.          *)
(*                                                                         *)
(* Source: src/unnamed/part_002 (runTask.ts, lines 1-161, and AsyncTask.ts,*)
(* lines 163-243), src/packages/mst-async-task/src/lib.ts (lib.ts, lines   *)
(* 1-25, followed by the test suite whose stores supply the task bodies).  *)
(***************************************************************************)
EXTENDS Integers, Sequences, FiniteSets, TLC

\* ---------------------------------------------------------------- bounds
\* Number of runTask() calls (runs) in one behaviour.
MaxRuns == 3

\* The records of a store: the test stores hold up to three tasks (and an
\* orchestrating task); three records are enough for every store modelled.
Task == 1..3
RunId == 1..MaxRuns

\* ------------------------------------------------------- lib.ts: values
INIT == "init"
PENDING == "pending"
COMPLETE == "complete"
FAILED == "failed"
ABORTED == "aborted"
AsyncTaskStatus == {INIT, PENDING, COMPLETE, FAILED, ABORTED}

\* Errors are objects; `by` tells apart the errors created by different tasks.
NoErr == [kind |-> "none", by |-> 0]
\* new AsyncTaskAbortError(), created on behalf of record t
AsyncTaskAbortError(t) == [kind |-> "AsyncTaskAbortError", by |-> t]
\* error instanceof AsyncTaskAbortError
IsAbortError(e) == e.kind = "AsyncTaskAbortError"
\* throw new Error('failed') in the body of task t
FailedError(t) == [kind |-> "failed", by |-> t]
\* reject(new Error('Aborted')) of sleep(signal) awaited by the body of task t
SleepAborted(t) == [kind |-> "Aborted", by |-> t]
\* new Error('callback failed'), thrown by the exec callback of task t
CallbackError(t) == [kind |-> "callback failed", by |-> t]
\* new Error('AsyncTask cannot be reset while pending.')
ResetWhilePending(t) == [kind |-> "cannot be reset while pending", by |-> t]

\* new AsyncTaskResult(status, error, result), as constructed at line 160 of
\* runTask and read by the tests (result.status, result.error, result.value)
AsyncTaskResult(st, err, val) == [st |-> st, err |-> err, val |-> val]
\* a value that is no AsyncTaskResult, as the callback of an exec returns it
Plain(val) == [st |-> "plain", err |-> NoErr, val |-> val]
\* a promise that has not been resolved / a body that has not ended
Nil == [st |-> "none", err |-> NoErr, val |-> "undefined"]

\* ------------------------------------------------- the stores (test suite)
\* A store: the records in use, the records whose task action is called from
\* outside (entry), and the body of each record's task action.
\* The body of a task, as written in the test stores:
\*   sleep: "none" | "plain" (sleep()) | "signal" (sleep(signal)), awaited first
\*   fail : the body throws new Error('failed') after the sleep
\*   ret  : what the body returns: "result" (return 'result') | "undefined"
\*   kind : "leaf"  exec(() => self.value = 'ok'); return 'result'
\*          "chain" yield exec(() => { self.value = 'ok'; return run(kids[1]) })
\*          "seq"   yield exec(run(kids[1])); yield exec(run(kids[2]))
\*          "par"   yield Promise.all([exec(run(kids[1])), exec(run(kids[2]))])
\*          "free"  try { yield sleep(...) } catch (e) {}; self.value = 'ok';
\*                  then throw new Error('failed') or return 'result':
\*                  the body swallows the rejection of its sleep and calls
\*                  no exec
\*          "try"   try { yield exec(() => run(kids[1])) } catch (e) {};
\*                  return 'result'
\*          "call"  return yield exec(cb), for the callback cb:
\*   cb   : "value"  () => 'ok'
\*          "throw"  () => { throw new Error('callback failed') }
\*          "kid"    () => run(kids[1])
\*          "two"    () => { run(kids[1]); return run(kids[2]) }
Body(kind, sleep, fail, kids, ret) ==
    [kind |-> kind, sleep |-> sleep, fail |-> fail, kids |-> kids, ret |-> ret,
     cb |-> "none"]

Leaf(sleep, fail, ret) == Body("leaf", sleep, fail, <<>>, ret)

Call(sleep, cb, kids) ==
    [Body("call", sleep, FALSE, kids, "exec") EXCEPT !.cb = cb]

\* describe('single task'): one record; run(fail) and runNoSignal()
SingleStore ==
    { [name |-> "single", used |-> {1}, entry |-> {1},
       body |-> [t \in Task |-> Leaf(b[1], b[2], b[3])]] :
         b \in {<<"signal", FALSE, "result">>, <<"signal", TRUE, "result">>,
                <<"plain", FALSE, "undefined">>} }

\* describe('chained tasks'): run(fail) -> run2(fail) -> run3; with fail, the
\* body of run2 throws after its sleep; the tests call run only
ChainStore ==
    { [name |-> "chain", used |-> {1, 2, 3}, entry |-> {1},
       body |-> [t \in Task |->
                   CASE t = 1 -> Body("chain", "signal", FALSE, <<2>>, "undefined")
                     [] t = 2 -> Body("chain", "signal", f, <<3>>, "undefined")
                     [] t = 3 -> Leaf("signal", FALSE, "undefined")]] :
         f \in BOOLEAN }

\* describe('sequential/parallel tasks'): runAllSeq / runAllParallel (record
\* 1) over run1 (record 2) and run2(fail) (record 3); the store exposes only
\* the two orchestrating actions
GroupStore ==
    { [name |-> k, used |-> {1, 2, 3}, entry |-> {1},
       body |-> [t \in Task |->
                   CASE t = 1 -> Body(k, "none", FALSE, <<2, 3>>, "undefined")
                     [] t = 2 -> Leaf("signal", FALSE, "undefined")
                     [] t = 3 -> Leaf("signal", f, "undefined")]] :
         k \in {"seq", "par"}, f \in BOOLEAN }

\* A store whose task action awaits one exec and returns what exec gave:
\* every kind of callback, over run2(fail) (record 2) and run3 (record 3);
\* with "two", run2 either sleeps first or calls its exec at once
NestStore ==
    { [name |-> "nest", used |-> {1}, entry |-> {1},
       body |-> [t \in Task |-> Call("none", c, <<>>)]] : c \in {"value", "throw"} }
    \cup
    { [name |-> "nest", used |-> {1, 2}, entry |-> {1},
       body |-> [t \in Task |->
                   CASE t = 1 -> Call("none", "kid", <<2>>)
                     [] OTHER -> Leaf("signal", f, "result")]] : f \in BOOLEAN }
    \cup
    { [name |-> "nest", used |-> {1, 2, 3}, entry |-> {1},
       body |-> [t \in Task |->
                   CASE t = 1 -> Call("none", "two", <<2, 3>>)
                     [] t = 2 -> Leaf(sl, FALSE, "undefined")
                     [] t = 3 -> Leaf("signal", FALSE, "result")]] :
         sl \in {"none", "signal"} }

\* Stores whose task bodies catch: a body that swallows the rejection of
\* its sleep and goes on without exec, and a body that swallows what its
\* exec of run2(fail) (record 2) rethrows; with them runNoSignal() of the
\* single store, whose body is stopped by its exec only
CatchStore ==
    { [name |-> "free", used |-> {1}, entry |-> {1},
       body |-> [t \in Task |-> Body("free", sl, f, <<>>, "result")]] :
         sl \in {"signal", "plain"}, f \in BOOLEAN }
    \cup
    { [name |-> "single", used |-> {1}, entry |-> {1},
       body |-> [t \in Task |-> Leaf("plain", FALSE, "undefined")]] }
    \cup
    { [name |-> "try", used |-> {1, 2}, entry |-> {1},
       body |-> [t \in Task |->
                   CASE t = 1 -> Body("try", "none", FALSE, <<2>>, "result")
                     [] OTHER -> Leaf("signal", f, "result")]] : f \in BOOLEAN }

Stores == SingleStore \cup ChainStore \cup GroupStore \cup NestStore \cup CatchStore

\* ------------------------------------------------------------------ state
VARIABLES
    store,              \* the store under test (its task bodies); never changes
    status,             \* status[t]: AsyncTask.status of record t
    error,              \* error[t]: AsyncTask.error of record t
    result,             \* result[t]: AsyncTask.result of record t
    ctrl,               \* ctrl[t]: task._abortController (a run), 0 = undefined
    alive,              \* alive[t]: isAlive(task)
    value,              \* value[t]: self.value was set to 'ok' by task t's body
    runs,               \* runs[r]: the r-th call of runTask()
    nRuns,              \* number of runTask() calls so far
    parentAbortSignal,  \* module variable of runTask.ts (a run), 0 = null
    thrown              \* the exception the last call on the store raised

vars == <<store, status, error, result, ctrl, alive, value, runs, nRuns, parentAbortSignal,
          thrown>>

\* One call of runTask(): its closure variables and the position of its
\* two asynchronous threads (the generator, and the await of line 125).
\*   task      the record of the call
\*   parent    the run whose signal this run's controller listens to (86-90)
\*   owner     the run whose exec awaits this call's promise (line 102)
\*   aborted   signal.aborted
\*   listening abortHandler is registered on signal (142, removed at 127)
\*   sleep     the promise of sleep(): "none" | "pending" | "resolved" | "rejected"
\*   pc        the generator: "sleep" | "exec" (awaiting exec / Promise.all)
\*             | "done" (returned or threw; line 145 not yet continued) | "end"
\*   idx       number of children started so far
\*   out       how the generator ended
\*   exErr     the first error rethrown by an exec of this run (line 106)
\*   exRet     what the callback of the run's exec returned, when that is no
\*             promise of a run (line 100)
\*   promise   the value the promise of line 125 was resolved with
\*   settled   line 160 was reached: promise is the AsyncTaskResult returned
\* and, recorded for the properties only (never read by the program):
\*   cbs       number of exec callbacks invoked (line 100)
\*   raw       the body made its write of self.value outside exec
\*   writes    number of _resolve() calls made for this run (137, 157)
\*   why       what aborted the run's controller: "call" (a call on its own
\*             record: task.abort(), task.reset(), or line 82 of a new run),
\*             "parent" (the listener of line 88)
\*   pend      the record's status was PENDING at that moment
NoRun ==
    [task |-> 0, parent |-> 0, owner |-> 0, aborted |-> FALSE,
     listening |-> FALSE, sleep |-> "none", pc |-> "none", idx |-> 0,
     out |-> Nil, exErr |-> NoErr, exRet |-> Nil, promise |-> Nil,
     settled |-> FALSE,
     cbs |-> 0, raw |-> FALSE, writes |-> 0, why |-> "none", pend |-> FALSE]

\* The whole program state as one value, so that the synchronous calls of a
\* step compose as functions from state to state.  ovf: the step needs more
\* than MaxRuns runs.  thrown: the exception the call in progress has raised.
State ==
    [status |-> status, error |-> error, result |-> result, ctrl |-> ctrl,
     alive |-> alive,
     value |-> value, runs |-> runs, nRuns |-> nRuns,
     pas |-> parentAbortSignal, thrown |-> NoErr, ovf |-> FALSE]

Becomes(s) ==
    /\ ~s.ovf
    /\ status' = s.status
    /\ error' = s.error
    /\ result' = s.result
    /\ ctrl' = s.ctrl
    /\ alive' = s.alive
    /\ value' = s.value
    /\ runs' = s.runs
    /\ nRuns' = s.nRuns
    /\ parentAbortSignal' = s.pas
    /\ thrown' = s.thrown
    /\ UNCHANGED store

Init ==
    /\ store \in Stores
    /\ status = [t \in Task |-> INIT]
    /\ error = [t \in Task |-> NoErr]
    /\ result = [t \in Task |-> "undefined"]
    /\ ctrl = [t \in Task |-> 0]
    /\ alive = [t \in Task |-> TRUE]
    /\ value = [t \in Task |-> FALSE]
    /\ runs = [r \in RunId |-> NoRun]
    /\ nRuns = 0
    /\ parentAbortSignal = 0
    /\ thrown = NoErr

\* ------------------------------------------------- recording (history)
\* The controller of run r is about to be aborted, because of `why`.
Mark(s, r, why) ==
    IF r = 0 \/ s.runs[r].aborted \/ s.runs[r].why # "none"
    THEN s
    ELSE [s EXCEPT !.runs[r].why = why,
                   !.runs[r].pend = (s.status[s.runs[r].task] = PENDING)]

\* -------------------------------------------- AsyncTask.ts and the DOM signal
\* _resolve that keeps task._abortController (line 235 left out)
_resolveKeepsController(s, t, st, err) ==
    [s EXCEPT !.status[t] = st, !.error[t] = err]

\* AsyncTask._resolve(status, error)
_resolve(s, t, st, err) ==
    [s EXCEPT !.status[t] = st, !.error[t] = err, !.ctrl[t] = 0]

\* The record's result field.  The AsyncTask that line 157 of runTask calls
\* with three arguments (and that the test suite reads as task.result) is a
\* later one than the AsyncTask.ts among the sources, which has no such
\* field; the write is modelled from the specification: _resolve records
\* the value it is given (undefined when it is given none), reset() clears
\* it.
recordResult(s, t, val) == [s EXCEPT !.result[t] = val]

\* done(args) of runTask: removes abortHandler and resolves the promise of
\* line 125; resolving a promise a second time changes nothing.
done(s, r, args) ==
    [s EXCEPT !.runs[r].listening = FALSE,
              !.runs[r].promise = IF @ = Nil THEN args ELSE @]

\* abortHandler without the isAlive(task) test of line 136
abortHandlerNoAlive(s, r) ==
    LET t == s.runs[r].task
        err == AsyncTaskAbortError(t)
        s1 == IF s.status[t] = PENDING
              THEN [recordResult(_resolve(s, t, ABORTED, err), t, "undefined")
                       EXCEPT !.runs[r].writes = @ + 1]
              ELSE s
    IN  done(s1, r, AsyncTaskResult(ABORTED, err, "undefined"))

\* abortHandler that leaves the record to the continuation of line 156
\* (lines 136-138 left out)
abortHandlerDeferred(s, r) ==
    LET t == s.runs[r].task
    IN  done(s, r, AsyncTaskResult(ABORTED, AsyncTaskAbortError(t), "undefined"))

\* abortHandler of runTask: the listener of the run's own signal
abortHandler(s, r) ==
    LET t == s.runs[r].task
        err == AsyncTaskAbortError(t)
        s1 == IF s.alive[t] /\ s.status[t] = PENDING
              THEN [recordResult(_resolve(s, t, ABORTED, err), t, "undefined")
                       EXCEPT !.runs[r].writes = @ + 1]
              ELSE s
    IN  done(s1, r, AsyncTaskResult(ABORTED, err, "undefined"))

RECURSIVE controllerAbort(_, _)
RECURSIVE abortChildren(_, _)

\* abort() of a controller to whose signal no child controller listens
\* (the listener of lines 87-89 never registered)
controllerAbortLocal(s, r) ==
    IF s.runs[r].aborted
    THEN s
    ELSE LET t == s.runs[r].task
             s1 == [s EXCEPT !.runs[r].aborted = TRUE]
             s2 == IF s1.runs[r].listening THEN abortHandler(s1, r) ELSE s1
         IN  IF s2.runs[r].sleep = "pending" /\ store.body[t].sleep = "signal"
             THEN [s2 EXCEPT !.runs[r].sleep = "rejected"]
             ELSE s2

\* abort() of a controller that stamps its record ABORTED whatever the
\* record's status, whether or not abortHandler is still registered
controllerAbortStamps(s, r) ==
    IF s.runs[r].aborted
    THEN s
    ELSE LET t == s.runs[r].task
             err == AsyncTaskAbortError(t)
             s1 == [s EXCEPT !.runs[r].aborted = TRUE]
             s2 == done(recordResult(_resolve(s1, t, ABORTED, err), t, "undefined"), r,
                        AsyncTaskResult(ABORTED, err, "undefined"))
             s3 == IF s2.runs[r].sleep = "pending" /\ store.body[t].sleep = "signal"
                   THEN [s2 EXCEPT !.runs[r].sleep = "rejected"]
                   ELSE s2
         IN  abortChildren(s3, {k \in 1..s.nRuns : s.runs[k].parent = r})

\* abort() of a controller that also ends the body of the run at once, with
\* an AsyncTaskAbortError (preemptive cancellation)
controllerAbortStops(s, r) ==
    IF s.runs[r].aborted
    THEN s
    ELSE LET t == s.runs[r].task
             s1 == [s EXCEPT !.runs[r].aborted = TRUE]
             s2 == IF s1.runs[r].listening THEN abortHandler(s1, r) ELSE s1
             s3 == IF s2.runs[r].pc \in {"sleep", "exec"}
                   THEN [s2 EXCEPT !.runs[r].sleep = "none",
                                   !.runs[r].pc = "done",
                                   !.runs[r].out =
                                       [st |-> "throw",
                                        err |-> AsyncTaskAbortError(t),
                                        val |-> "undefined"]]
                   ELSE s2
         IN  abortChildren(s3, {k \in 1..s.nRuns : s.runs[k].parent = r})

\* abort() of a controller whose abort also travels upward: the controller
\* of the run it is chained to is aborted too
controllerAbortUp(s, r) ==
    IF s.runs[r].aborted
    THEN s
    ELSE LET t == s.runs[r].task
             s1 == [s EXCEPT !.runs[r].aborted = TRUE]
             s2 == IF s1.runs[r].listening THEN abortHandler(s1, r) ELSE s1
             s3 == IF s2.runs[r].sleep = "pending" /\ store.body[t].sleep = "signal"
                   THEN [s2 EXCEPT !.runs[r].sleep = "rejected"]
                   ELSE s2
             s4 == abortChildren(s3, {k \in 1..s.nRuns : s.runs[k].parent = r})
         IN  IF s.runs[r].parent # 0 THEN controllerAbort(s4, s.runs[r].parent) ELSE s4

\* abortController.abort() of run r: sets signal.aborted and dispatches
\* 'abort' to the listeners in the order they were added: abortHandler
\* (line 142), the listener of sleep(signal) (the body's first statement),
\* then the listener of every run chained to this signal (lines 87-89).
\* A signal that is already aborted dispatches nothing.
controllerAbort(s, r) ==
    IF s.runs[r].aborted
    THEN s
    ELSE LET t == s.runs[r].task
             s1 == [s EXCEPT !.runs[r].aborted = TRUE]
             s2 == IF s1.runs[r].listening THEN abortHandler(s1, r) ELSE s1
             s3 == IF s2.runs[r].sleep = "pending" /\ store.body[t].sleep = "signal"
                   THEN [s2 EXCEPT !.runs[r].sleep = "rejected"]
                   ELSE s2
         IN  abortChildren(s3, {k \in 1..s.nRuns : s.runs[k].parent = r})

\* the listeners `() => abortController.abort()` of the runs ks, oldest first
abortChildren(s, ks) ==
    IF ks = {}
    THEN s
    ELSE LET k == CHOOSE x \in ks : \A y \in ks : x <= y
         IN  abortChildren(controllerAbort(Mark(s, k, "parent"), k), ks \ {k})

\* AsyncTask.abort()
abort(s, t) ==
    IF s.ctrl[t] # 0
    THEN controllerAbort(Mark(s, s.ctrl[t], "call"), s.ctrl[t])
    ELSE s

\* reset() that leaves the error as it is (line 226 left out)
resetKeepsError(s, t) ==
    recordResult([abort(s, t) EXCEPT !.status[t] = INIT], t, "undefined")

\* AsyncTask.reset()
reset(s, t) ==
    recordResult([abort(s, t) EXCEPT !.status[t] = INIT, !.error[t] = NoErr],
                 t, "undefined")

\* ------------------------------------------------------------ runTask.ts
Returned(val) == [st |-> "return", err |-> NoErr, val |-> val]
Thrown(err) == [st |-> "throw", err |-> err, val |-> "undefined"]

\* execAsync that returns the value carried by the awaited value, settlement
\* or not, and never rethrows (lines 104-109 left out)
execResultRaw(res) == Returned(res.val)

\* execAsync after `await ret` (lines 104-111), for the awaited value res:
\* how the promise that exec returned is settled
execResult(res) ==
    IF res.st \in AsyncTaskStatus
    THEN IF res.err # NoErr THEN Thrown(res.err) ELSE Returned("undefined")
    ELSE Returned(res.val)

\* the generator of run r ended: flow()'s promise is settled with out
finish(s, r, out) ==
    [s EXCEPT !.runs[r].pc = "done", !.runs[r].out = out]

\* exec's precondition without the test of signal.aborted
execGateIgnoresSignal(s, r) ==
    LET t == s.runs[r].task
    IN  s.alive[t] /\ s.status[t] = PENDING

\* exec's precondition (line 93, negated): the callback may be invoked
execGate(s, r) ==
    LET t == s.runs[r].task
    IN  s.alive[t] /\ s.status[t] = PENDING /\ ~s.runs[r].aborted

RECURSIVE runTask(_, _, _)

\* execAsync up to its await (lines 98-102) for the callbacks of the stores:
\* the callback sets self.value (mut) and calls the task action of record
\* kid (0: none), whose promise execAsync then awaits.
execAsync(s, r, mut, kid) ==
    LET t == s.runs[r].task
        s1 == [s EXCEPT !.pas = r, !.runs[r].cbs = @ + 1]
        s2 == IF mut THEN [s1 EXCEPT !.value[t] = TRUE] ELSE s1
        s3 == IF kid # 0 THEN runTask(s2, kid, r) ELSE s2
    IN  [s3 EXCEPT !.pas = 0]

\* execAsync whose catch does not clear parentAbortSignal (line 113 left out)
execCallbackLeaks(s, r, cb) ==
    LET t == s.runs[r].task
        kids == store.body[t].kids
        s1 == [s EXCEPT !.pas = r, !.runs[r].cbs = @ + 1]
    IN  CASE cb = "value" -> [s1 EXCEPT !.pas = 0, !.runs[r].exRet = Plain("ok")]
          [] cb = "throw" -> [s1 EXCEPT !.runs[r].exErr = CallbackError(t)]
          [] cb = "kid" -> [runTask(s1, kids[1], r) EXCEPT !.pas = 0]
          [] cb = "two" ->
               [runTask(runTask(s1, kids[1], 0), kids[2], r) EXCEPT !.pas = 0]

\* execAsync up to its await (lines 98-102, 112-115) for the callback of a
\* "call" body: an error thrown by the callback is rethrown after
\* parentAbortSignal is cleared; a task started by the callback and not
\* returned by it is awaited by nobody
execCallback(s, r, cb) ==
    LET t == s.runs[r].task
        kids == store.body[t].kids
        s1 == [s EXCEPT !.pas = r, !.runs[r].cbs = @ + 1]
        s2 == CASE cb = "value" -> [s1 EXCEPT !.runs[r].exRet = Plain("ok")]
                [] cb = "throw" -> [s1 EXCEPT !.runs[r].exErr = CallbackError(t)]
                [] cb = "kid" -> runTask(s1, kids[1], r)
                [] cb = "two" -> runTask(runTask(s1, kids[1], 0), kids[2], r)
    IN  [s2 EXCEPT !.pas = 0]

\* `yield exec(cb)` of a "call" body
execCall(s, r) ==
    LET t == s.runs[r].task
        b == store.body[t]
    IN  IF execGate(s, r)
        THEN [execCallback(s, r, b.cb) EXCEPT !.runs[r].idx = Len(b.kids),
                                              !.runs[r].pc = "exec"]
        ELSE finish(s, r, Thrown(AsyncTaskAbortError(t)))

\* the value that the exec of a "call" body awaited (line 102): what the
\* callback returned, or the AsyncTaskResult of the run it returned
awaited(s, r) ==
    IF s.runs[r].exRet # Nil
    THEN s.runs[r].exRet
    ELSE s.runs[CHOOSE k \in 1..s.nRuns : s.runs[k].owner = r].promise

\* `exec(...)` of the next child in a body: throws at the precondition
\* (line 94) or starts the child and leaves the body awaiting it
execChild(s, r, mut) ==
    LET t == s.runs[r].task
        kid == store.body[t].kids[s.runs[r].idx + 1]
    IN  IF execGate(s, r)
        THEN [execAsync(s, r, mut, kid) EXCEPT !.runs[r].idx = @ + 1,
                                                !.runs[r].pc = "exec"]
        ELSE finish(s, r, Thrown(AsyncTaskAbortError(t)))

\* a "free" body after its sleep, resolved or rejected: the write of
\* self.value in the generator itself, then the end of the body
awakeFree(s, r) ==
    LET t == s.runs[r].task
        b == store.body[t]
        s1 == [s EXCEPT !.value[t] = TRUE, !.runs[r].raw = TRUE]
    IN  IF b.fail
        THEN finish(s1, r, Thrown(FailedError(t)))
        ELSE finish(s1, r, Returned(b.ret))

\* the body resumed with the rejection of its sleep (new Error('Aborted')):
\* it ends with that error unless it catches it
sleepRejected(s, r) ==
    LET t == s.runs[r].task
    IN  IF store.body[t].kind = "free"
        THEN awakeFree(s, r)
        ELSE finish(s, r, Thrown(SleepAborted(t)))

\* the body after its sleep, up to its next yield or its end
awake(s, r) ==
    LET t == s.runs[r].task
        b == store.body[t]
    IN  IF b.kind = "free"
        THEN awakeFree(s, r)
        ELSE IF b.fail
        THEN finish(s, r, Thrown(FailedError(t)))
        ELSE CASE b.kind = "leaf" ->
                    IF execGate(s, r)
                    THEN finish(execAsync(s, r, TRUE, 0), r, Returned(b.ret))
                    ELSE finish(s, r, Thrown(AsyncTaskAbortError(t)))
               [] b.kind = "chain" -> execChild(s, r, TRUE)
               [] b.kind = "seq" -> execChild(s, r, FALSE)
               [] b.kind = "call" -> execCall(s, r)
               [] b.kind = "try" ->
                    IF execGate(s, r)
                    THEN execChild(s, r, FALSE)
                    ELSE finish(s, r, Returned(b.ret))
               [] b.kind = "par" ->
                    LET s1 == execChild(s, r, FALSE)
                    IN  IF s1.runs[r].pc = "done" THEN s1
                        ELSE execChild(s1, r, FALSE)

\* the body resumed after an exec that never rethrows the error of the
\* AsyncTaskResult it awaited (lines 105-107 left out)
afterExecIgnoresError(s, r) ==
    LET t == s.runs[r].task
    IN  IF s.runs[r].idx < Len(store.body[t].kids)
        THEN execChild(s, r, FALSE)
        ELSE finish(s, r, Returned("undefined"))

\* the body resumed after `yield exec(...)` / `yield Promise.all([...])`:
\* exec rethrew a child's error (line 106), or every awaited child is done
afterExec(s, r) ==
    LET t == s.runs[r].task
    IN  IF store.body[t].kind = "try"
        THEN finish(s, r, Returned(store.body[t].ret))
        ELSE IF s.runs[r].exErr # NoErr
        THEN finish(s, r, Thrown(s.runs[r].exErr))
        ELSE IF s.runs[r].idx < Len(store.body[t].kids)
        THEN execChild(s, r, FALSE)
        ELSE IF store.body[t].kind = "call"
        THEN finish(s, r, execResult(awaited(s, r)))
        ELSE finish(s, r, Returned("undefined"))

\* flow(generator)({ signal, exec }): the body up to its first yield
start(s, r) ==
    IF store.body[s.runs[r].task].sleep # "none"
    THEN [s EXCEPT !.runs[r].pc = "sleep", !.runs[r].sleep = "pending"]
    ELSE awake(s, r)

\* runTask() that leaves task.error as it was (line 122 left out)
runTaskKeepsError(s, t, owner) ==
    IF s.nRuns >= MaxRuns
    THEN [s EXCEPT !.ovf = TRUE]
    ELSE LET r == s.nRuns + 1
             s1 == IF s.ctrl[t] # 0
                   THEN [controllerAbort(Mark(s, s.ctrl[t], "call"), s.ctrl[t])
                            EXCEPT !.ctrl[t] = 0]
                   ELSE s
             s2 == [s1 EXCEPT !.nRuns = r,
                              !.runs[r] = [NoRun EXCEPT !.task = t,
                                                        !.parent = s1.pas,
                                                        !.owner = owner]]
             s3 == [s2 EXCEPT !.status[t] = PENDING, !.ctrl[t] = r]
             s4 == [s3 EXCEPT !.runs[r].listening = TRUE]
         IN  start(s4, r)

\* runTask that starts a new run without aborting the controller of the
\* run it supersedes (lines 81-84 left out)
runTaskNoSupersede(s, t, owner) ==
    IF s.nRuns >= MaxRuns
    THEN [s EXCEPT !.ovf = TRUE]
    ELSE LET r == s.nRuns + 1
             s2 == [s EXCEPT !.nRuns = r,
                             !.runs[r] = [NoRun EXCEPT !.task = t,
                                                       !.parent = s.pas,
                                                       !.owner = owner]]
             s3 == [s2 EXCEPT !.status[t] = PENDING, !.error[t] = NoErr,
                              !.ctrl[t] = r]
             s4 == [s3 EXCEPT !.runs[r].listening = TRUE]
         IN  start(s4, r)

\* runTask(task, generator) up to its first await (lines 78-145); owner is
\* the run whose exec callback made the call (0: called from outside)
runTask(s, t, owner) ==
    IF s.nRuns >= MaxRuns
    THEN [s EXCEPT !.ovf = TRUE]
    ELSE LET r == s.nRuns + 1
             s1 == IF s.ctrl[t] # 0
                   THEN [controllerAbort(Mark(s, s.ctrl[t], "call"), s.ctrl[t])
                            EXCEPT !.ctrl[t] = 0]
                   ELSE s
             s2 == [s1 EXCEPT !.nRuns = r,
                              !.runs[r] = [NoRun EXCEPT !.task = t,
                                                        !.parent = s1.pas,
                                                        !.owner = owner]]
             s3 == [s2 EXCEPT !.status[t] = PENDING, !.error[t] = NoErr,
                              !.ctrl[t] = r]
             s4 == [s3 EXCEPT !.runs[r].listening = TRUE]
         IN  start(s4, r)

\* the continuation of `await flow(...)` that reports every thrown error as
\* FAILED (no `instanceof AsyncTaskAbortError` test at line 148)
flowDoneAllFailed(s, r) ==
    LET o == s.runs[r].out
        args == IF o.st = "return"
                THEN AsyncTaskResult(COMPLETE, NoErr, o.val)
                ELSE AsyncTaskResult(FAILED, o.err, "undefined")
    IN  [done(s, r, args) EXCEPT !.runs[r].pc = "end"]

\* the continuation of `await flow(...)` that forgets the returned value
\* (done([COMPLETE]) at line 146)
flowDoneDropsValue(s, r) ==
    LET o == s.runs[r].out
        args == IF o.st = "return"
                THEN AsyncTaskResult(COMPLETE, NoErr, "undefined")
                ELSE IF o.err.kind = "AsyncTaskAbortError"
                THEN AsyncTaskResult(ABORTED, o.err, "undefined")
                ELSE AsyncTaskResult(FAILED, o.err, "undefined")
    IN  [done(s, r, args) EXCEPT !.runs[r].pc = "end"]

\* the continuation of `await flow(...)` that reports every thrown error as
\* ABORTED (line 149 taken for every error)
flowDoneAllAborted(s, r) ==
    LET o == s.runs[r].out
        args == IF o.st = "return"
                THEN AsyncTaskResult(COMPLETE, NoErr, o.val)
                ELSE AsyncTaskResult(ABORTED, o.err, "undefined")
    IN  [done(s, r, args) EXCEPT !.runs[r].pc = "end"]

\* the continuation of `await flow(generator)(...)` (lines 145-153)
flowDone(s, r) ==
    LET o == s.runs[r].out
        args == IF o.st = "return"
                THEN AsyncTaskResult(COMPLETE, NoErr, o.val)
                ELSE IF o.err.kind = "AsyncTaskAbortError"
                THEN AsyncTaskResult(ABORTED, o.err, "undefined")
                ELSE AsyncTaskResult(FAILED, o.err, "undefined")
    IN  [done(s, r, args) EXCEPT !.runs[r].pc = "end"]

\* the continuation of line 125 without the stale-run guard of line 156:
\* the terminal status is applied whenever the record is alive
finalUnguarded(s, r) ==
    LET t == s.runs[r].task
        p == s.runs[r].promise
        o == s.runs[r].owner
        s1 == IF s.alive[t]
              THEN [recordResult(_resolve(s, t, p.st, p.err), t, p.val)
                       EXCEPT !.runs[r].writes = @ + 1]
              ELSE s
        s2 == [s1 EXCEPT !.runs[r].settled = TRUE]
    IN  IF o # 0 /\ p.err # NoErr /\ s2.runs[o].exErr = NoErr
        THEN [s2 EXCEPT !.runs[o].exErr = p.err]
        ELSE s2

\* the continuation of line 125 where an exec that rethrows a child's error
\* also cancels the other children of its run (fail-fast)
finalCancelsSiblings(s, r) ==
    LET t == s.runs[r].task
        p == s.runs[r].promise
        o == s.runs[r].owner
        s1 == IF s.alive[t] /\ s.status[t] = PENDING /\ ~s.runs[r].aborted
              THEN [recordResult(_resolve(s, t, p.st, p.err), t, p.val)
                       EXCEPT !.runs[r].writes = @ + 1]
              ELSE s
        s2 == [s1 EXCEPT !.runs[r].settled = TRUE]
    IN  IF o # 0 /\ p.err # NoErr /\ s2.runs[o].exErr = NoErr
        THEN abortChildren([s2 EXCEPT !.runs[o].exErr = p.err],
                           {k \in 1..s.nRuns : s.runs[k].owner = o /\ k # r})
        ELSE s2

\* the continuation of line 125 where the error of a settlement that an
\* exec awaited is also written to the record of the run that owns the exec
finalFailsOwner(s, r) ==
    LET t == s.runs[r].task
        p == s.runs[r].promise
        o == s.runs[r].owner
        s1 == IF s.alive[t] /\ s.status[t] = PENDING /\ ~s.runs[r].aborted
              THEN [recordResult(_resolve(s, t, p.st, p.err), t, p.val)
                       EXCEPT !.runs[r].writes = @ + 1]
              ELSE s
        s2 == [s1 EXCEPT !.runs[r].settled = TRUE]
    IN  IF o # 0 /\ p.err # NoErr /\ s2.runs[o].exErr = NoErr
        THEN _resolve([s2 EXCEPT !.runs[o].exErr = p.err],
                      s2.runs[o].task, p.st, p.err)
        ELSE s2

\* the continuation of the await of line 125 (lines 156-160), and of the
\* `await ret` of the exec that awaits the returned promise (lines 102-109)
final(s, r) ==
    LET t == s.runs[r].task
        p == s.runs[r].promise
        o == s.runs[r].owner
        s1 == IF s.alive[t] /\ s.status[t] = PENDING /\ ~s.runs[r].aborted
              THEN [recordResult(_resolve(s, t, p.st, p.err), t, p.val)
                       EXCEPT !.runs[r].writes = @ + 1]
              ELSE s
        s2 == [s1 EXCEPT !.runs[r].settled = TRUE]
        x == execResult(p)
    IN  IF o # 0 /\ x.st = "throw" /\ s2.runs[o].exErr = NoErr
        THEN [s2 EXCEPT !.runs[o].exErr = x.err]
        ELSE s2

\* ---------------------------------------------------------------- actions
Live(r) == r \in 1..nRuns

\* a task action of the store is called from outside any task
Run(t) ==
    /\ t \in store.entry
    /\ alive[t]
    /\ Becomes(runTask(State, t, 0))

\* task.abort() is called from outside
Abort(t) ==
    /\ t \in store.used
    /\ Becomes(abort(State, t))

\* task.reset() is called from outside, on a record whose task action the
\* caller runs (as in the tests); abort() is called on any record in use
Reset(t) ==
    /\ t \in store.entry
    /\ alive[t]
    /\ Becomes(reset(State, t))

\* destroy(store)
Destroy ==
    /\ \E t \in store.used : alive[t]
    /\ Becomes([State EXCEPT !.alive = [t \in Task |-> FALSE]])

\* applySnapshot(store, {}): every property of the store and of its records
\* goes back to its default; the records stay the same nodes and keep their
\* _abortController, which is no property of the model type
ApplySnapshot ==
    /\ \A t \in store.used : alive[t]
    /\ \E t \in store.used : status[t] # INIT \/ value[t]
    /\ Becomes([State EXCEPT !.status = [t \in Task |-> INIT],
                             !.error = [t \in Task |-> NoErr],
                             !.result = [t \in Task |-> "undefined"],
                             !.value = [t \in Task |-> FALSE]])

\* the timer of sleep() fires: setTimeout(resolve, 10)
Timer(r) ==
    /\ Live(r)
    /\ runs[r].sleep = "pending"
    /\ Becomes([State EXCEPT !.runs[r].sleep = "resolved"])

\* the generator of run r is resumed by flow() with the outcome of the
\* promise it yielded
Resume(r) ==
    /\ Live(r)
    /\ \/ /\ runs[r].pc = "sleep"
          /\ runs[r].sleep = "resolved"
          /\ Becomes(awake(State, r))
       \/ /\ runs[r].pc = "sleep"
          /\ runs[r].sleep = "rejected"
          /\ Becomes(sleepRejected(State, r))
       \/ /\ runs[r].pc = "exec"
          /\ \/ runs[r].exErr # NoErr
             \/ \A k \in 1..nRuns : runs[k].owner = r => runs[k].settled
          /\ Becomes(afterExec(State, r))

FlowDone(r) ==
    /\ Live(r)
    /\ runs[r].pc = "done"
    /\ Becomes(flowDone(State, r))

Final(r) ==
    /\ Live(r)
    /\ runs[r].promise # Nil
    /\ ~runs[r].settled
    /\ Becomes(final(State, r))

\* the store stays in the state tree
Next ==
    \/ \E t \in Task : Run(t)
    \/ \E t \in Task : Abort(t)
    \/ \E t \in Task : Reset(t)
    \/ \E r \in RunId : Timer(r)
    \/ \E r \in RunId : Resume(r)
    \/ \E r \in RunId : FlowDone(r)
    \/ \E r \in RunId : Final(r)

\* the store may be destroyed at any moment
NextDestroy ==
    \/ Next
    \/ Destroy

\* a snapshot may be applied to the store at any moment
NextSnapshot ==
    \/ Next
    \/ ApplySnapshot

Spec == Init /\ [][Next]_vars

\* one specification for each family of stores
InitSingle == Init /\ store \in SingleStore
InitChain == Init /\ store \in ChainStore
InitGroup == Init /\ store \in GroupStore
InitNest == Init /\ store \in NestStore
InitCatch == Init /\ store \in CatchStore
\* the store of the test that destroys it: run(fail) of the single store
InitDestroy == InitSingle /\ store.body[1].sleep = "signal"

SpecSingle == InitSingle /\ [][Next]_vars
SpecChain == InitChain /\ [][Next]_vars
SpecGroup == InitGroup /\ [][Next]_vars
SpecNest == InitNest /\ [][Next]_vars
SpecCatch == InitCatch /\ [][Next]_vars
SpecDestroy == InitDestroy /\ [][NextDestroy]_vars
SpecSnapshot == InitDestroy /\ [][NextSnapshot]_vars

\* ------------------------------------------- the stricter older generation
\* src/src/AsyncTask.ts with the runTask() it was written for, on the single
\* store of src/__tests__/runTask.test.ts.  A record has status and error
\* only; abort() only aborts the controller; the status is written when the
\* flow of runTask() continues after the body.

\* new AsyncTaskResult(error) of src/src/lib.ts: it carries an error only
AsyncTaskResultStrict(err) == [st |-> "settled", err |-> err, val |-> "undefined"]

\* AsyncTask.abort(): no listener is registered on the signal of a run that
\* was started outside any task
abortStrict(s, t) ==
    IF s.ctrl[t] # 0 THEN [s EXCEPT !.runs[s.ctrl[t]].aborted = TRUE] ELSE s

\* (a variant of reset() that resets a pending record like the newer generation)
resetStrictSilent(s, t) ==
    [abortStrict(s, t) EXCEPT !.status[t] = INIT, !.error[t] = NoErr]

\* AsyncTask.reset()
resetStrict(s, t) ==
    IF s.status[t] = PENDING
    THEN [s EXCEPT !.thrown = ResetWhilePending(t)]
    ELSE [s EXCEPT !.status[t] = INIT, !.error[t] = NoErr]

\* runTask(task, generator) up to the first yield of the body: sleep(signal)
runTaskStrict(s, t) ==
    LET r == s.nRuns + 1
        s1 == IF s.status[t] = PENDING THEN abortStrict(s, t) ELSE s
    IN  IF r > MaxRuns
        THEN [s EXCEPT !.ovf = TRUE]
        ELSE [s1 EXCEPT !.status[t] = PENDING,
                        !.error[t] = NoErr,
                        !.ctrl[t] = r,
                        !.nRuns = r,
                        !.runs[r] = [NoRun EXCEPT !.task = t,
                                                  !.sleep = "pending",
                                                  !.pc = "sleep"]]

\* the callback of setTimeout in sleep(signal)
timeoutStrict(s, r) ==
    [s EXCEPT !.runs[r].sleep = IF s.runs[r].aborted THEN "rejected" ELSE "resolved"]

\* exec(() => self.value = 'ok'), not yielded by the body: when its guard
\* fails, the promise it returns is rejected and nothing observes it
execStrict(s, r) ==
    LET t == s.runs[r].task
    IN  IF s.runs[r].aborted \/ s.status[t] # PENDING \/ ~s.alive[t]
        THEN s
        ELSE [s EXCEPT !.value[t] = TRUE, !.runs[r].cbs = @ + 1]

\* the body after sleep(signal)
awakeStrict(s, r) ==
    LET t == s.runs[r].task
    IN  IF s.runs[r].sleep = "rejected"
        THEN [s EXCEPT !.runs[r].pc = "done",
                       !.runs[r].out = Thrown(SleepAborted(t))]
        ELSE IF store.body[t].fail
        THEN [s EXCEPT !.runs[r].pc = "done",
                       !.runs[r].out = Thrown(FailedError(t))]
        ELSE [execStrict(s, r) EXCEPT !.runs[r].pc = "done",
                                      !.runs[r].out = Returned("undefined")]

\* runTask() after `yield flow(generator)(...)`: the status and the error of
\* the record, delete task._abortController, return result
finalStrict(s, r) ==
    LET t == s.runs[r].task
        o == s.runs[r].out
        e == IF o.st = "throw" /\ IsAbortError(o.err) THEN o.err
             ELSE IF s.runs[r].aborted THEN AsyncTaskAbortError(t)
             ELSE o.err
        st == IF e = NoErr THEN COMPLETE
              ELSE IF IsAbortError(e) THEN ABORTED
              ELSE FAILED
    IN  [s EXCEPT !.status[t] = st,
                  !.error[t] = IF st = COMPLETE THEN @ ELSE e,
                  !.ctrl[t] = 0,
                  !.runs[r].pc = "end",
                  !.runs[r].settled = TRUE,
                  !.runs[r].promise = AsyncTaskResultStrict(e)]

RunStrict(t) ==
    /\ t \in store.entry
    /\ Becomes(runTaskStrict(State, t))

AbortStrict(t) ==
    /\ t \in store.entry
    /\ Becomes(abortStrict(State, t))

ResetStrict(t) ==
    /\ t \in store.entry
    /\ Becomes(resetStrict(State, t))

TimerStrict(r) ==
    /\ Live(r)
    /\ runs[r].sleep = "pending"
    /\ Becomes(timeoutStrict(State, r))

ResumeStrict(r) ==
    /\ Live(r)
    /\ runs[r].pc = "sleep"
    /\ runs[r].sleep \in {"resolved", "rejected"}
    /\ Becomes(awakeStrict(State, r))

FinalStrict(r) ==
    /\ Live(r)
    /\ runs[r].pc = "done"
    /\ Becomes(finalStrict(State, r))

NextStrict ==
    \/ \E t \in Task : RunStrict(t)
    \/ \E t \in Task : AbortStrict(t)
    \/ \E t \in Task : ResetStrict(t)
    \/ \E r \in RunId : TimerStrict(r)
    \/ \E r \in RunId : ResumeStrict(r)
    \/ \E r \in RunId : FinalStrict(r)

\* the store of the older test suite: run(fail) sleeps on the signal, then
\* throws or sets the value through exec
InitStrict == InitSingle /\ store.body[1].sleep = "signal"

SpecStrict == InitStrict /\ [][NextStrict]_vars

\* ------------------------------------------------------- AsyncTask views
\* the views of AsyncTask, as functions of the status of the record
clean(st) == st = INIT
pending(st) == st = PENDING
complete(st) == st = COMPLETE
failed(st) == st = FAILED
aborted(st) == st = ABORTED
\* (a variant of unresolved that forgets PENDING)
unresolvedInitOnly(st) == st = INIT
unresolved(st) == st = INIT \/ st = PENDING
resolved(st) == st # INIT /\ st # PENDING

\* AsyncTask.create({ status }): a record is created from a snapshot
Create(t, st) ==
    /\ t \in store.used
    /\ status[t] # st
    /\ Becomes([State EXCEPT !.status[t] = st])

NextViews == \E t \in Task, st \in AsyncTaskStatus : Create(t, st)

SpecViews == InitGroup /\ [][NextViews]_vars

\* ------------------------------------------------------------ properties
Runs == 1..nRuns
TaskOf(r) == runs[r].task

\* no later runTask() call was made on the record of run r
Latest(r) == \A q \in Runs : runs[q].task = TaskOf(r) => q <= r

\* run r is the last run of its record and the record was not reset since:
\* a record that was run is INIT only after reset()
Undisturbed(r) == Latest(r) /\ status[TaskOf(r)] # INIT

\* the runs created by the step
NewRuns == {r \in RunId : nRuns < r /\ r <= nRuns'}

\* C1: a call of runTask() on a live record, whatever its status, leaves the
\* record PENDING with its error cleared at the end of the synchronous step
\* that made the call.
C1_RunSetsPending ==
    [][\A r \in NewRuns :
          /\ status'[runs'[r].task] = PENDING
          /\ error'[runs'[r].task] = NoErr]_vars

\* a second run was just started on a record whose earlier run had failed
\* and had written FAILED and its error to the record
C1_Witness ==
    \E r \in Runs :
        /\ r > 1
        /\ runs[r].pc = "sleep" /\ runs[r].sleep = "pending"
        /\ ~runs[r].aborted /\ runs[r].promise = Nil
        /\ status[TaskOf(r)] = PENDING /\ error[TaskOf(r)] = NoErr
        /\ runs[r - 1].task = TaskOf(r)
        /\ runs[r - 1].settled /\ runs[r - 1].writes = 1
        /\ runs[r - 1].promise.st = FAILED

\* C2: abort() called while the record is PENDING (also after the body has
\* finished, before the terminal status is applied) makes the run's
\* settlement ABORTED with an AsyncTaskAbortError and leaves the record
\* ABORTED with such an error, as long as no reset() or new run follows.
C2_AbortWhilePending ==
    \A r \in Runs :
        (/\ runs[r].why = "call" /\ runs[r].pend
         /\ runs[r].settled
         /\ Undisturbed(r)
         /\ alive[TaskOf(r)])
        => /\ runs[r].promise.st = ABORTED
           /\ IsAbortError(runs[r].promise.err)
           /\ status[TaskOf(r)] = ABORTED
           /\ IsAbortError(error[TaskOf(r)])

\* C3: reset() on a PENDING record leaves it INIT with no error in the same
\* step; from then on, until a new run is started on the record, no step
\* (of the superseded run or any other) changes the record's status or
\* error, sets the value its gated mutation writes, or invokes one of its
\* exec callbacks.
C3_ResetSupersedes ==
    [][\A t \in Task :
          /\ (status[t] = PENDING /\ Reset(t))
                => (status'[t] = INIT /\ error'[t] = NoErr)
          /\ (status[t] = INIT /\ \A r \in NewRuns : runs'[r].task # t)
                => /\ status'[t] = INIT /\ error'[t] = NoErr
                   /\ value'[t] = value[t]
                   /\ \A r \in Runs : TaskOf(r) = t
                                         => runs'[r].cbs = runs[r].cbs]_vars

\* a run whose record was reset while PENDING, after its body had ended,
\* has settled without having written to the record, which is still INIT
C3_Witness ==
    \E r \in Runs :
        /\ runs[r].why = "call" /\ runs[r].pend
        /\ runs[r].settled /\ runs[r].writes = 0
        /\ Latest(r)
        /\ status[TaskOf(r)] = INIT /\ error[TaskOf(r)] = NoErr

\* the settlement of run r is ABORTED with an AsyncTaskAbortError
SettlementAborted(r) ==
    runs[r].promise.st = ABORTED /\ IsAbortError(runs[r].promise.err)

\* the record t is ABORTED with an AsyncTaskAbortError
RecordAborted(t) == status[t] = ABORTED /\ IsAbortError(error[t])

\* no exec callback of a run is invoked by a step that begins with the
\* run's signal aborted
NoGatedAfterAbort ==
    \A r \in Runs : runs[r].aborted => runs'[r].cbs = runs[r].cbs

\* C4: when runTask() is called on a record whose earlier run is PENDING,
\* the earlier run's settlement is ABORTED with an AsyncTaskAbortError (the
\* value its promise holds when the call returns is the one line 160
\* returns), a run that is no longer the record's latest never writes to
\* the record, and when the latest run settles without having been aborted,
\* on a record still PENDING, the record takes that run's own status.
C4_RerunAbortsEarlier ==
    [][/\ \A t \in Task :
             (/\ status[t] = PENDING /\ ctrl[t] # 0
              /\ \E r \in NewRuns : runs'[r].task = t)
             => /\ runs'[ctrl[t]].promise.st = ABORTED
                /\ IsAbortError(runs'[ctrl[t]].promise.err)
       /\ \A q \in Runs : ~Latest(q) => runs'[q].writes = runs[q].writes
       /\ \A r \in Runs :
             (/\ Latest(r) /\ ~runs[r].aborted /\ ~runs[r].settled
              /\ runs'[r].settled /\ status[TaskOf(r)] = PENDING
              /\ alive[TaskOf(r)])
             => /\ status'[TaskOf(r)] = runs'[r].promise.st
                /\ error'[TaskOf(r)] = runs'[r].promise.err]_vars

\* C5: in a chain of tasks run through exec, when a task settles FAILED
\* with error e and the task whose exec awaits it is not aborted, the
\* awaiting task settles FAILED with the same e and its record, unless run
\* again or reset since, is FAILED with e; the failed task's record keeps
\* FAILED with e.
C5_FailureBubblesUp ==
    \A k \in Runs :
        LET o == runs[k].owner
            e == runs[k].promise.err
        IN  (/\ o # 0 /\ store.name = "chain"
             /\ runs[k].settled /\ runs[k].promise.st = FAILED
             /\ ~runs[k].aborted /\ ~runs[o].aborted)
            => /\ Undisturbed(k)
                    => status[TaskOf(k)] = FAILED /\ error[TaskOf(k)] = e
               /\ runs[o].settled
                    => /\ runs[o].promise.st = FAILED /\ runs[o].promise.err = e
                       /\ Undisturbed(o)
                            => status[TaskOf(o)] = FAILED /\ error[TaskOf(o)] = e

\* the innermost started task B and the task A whose exec awaited it have
\* both settled FAILED with the error thrown by B's body; the value A
\* committed before starting B is kept
C5_Witness ==
    /\ nRuns = 2
    /\ runs[2].owner = 1
    /\ \A r \in Runs :
          /\ runs[r].settled /\ ~runs[r].aborted
          /\ runs[r].promise.st = FAILED
          /\ runs[r].promise.err = FailedError(TaskOf(2))
          /\ status[TaskOf(r)] = FAILED
          /\ error[TaskOf(r)] = FailedError(TaskOf(2))
    /\ value[TaskOf(1)] /\ ~value[TaskOf(2)]

\* the chain A -> B -> C whose innermost run c was aborted by a call on its
\* own record while that record was PENDING: each of the three runs that
\* has settled, on a record not run again or reset since, has an ABORTED
\* settlement and an ABORTED record, and the values A and B committed stay
C6_ChainAborted ==
    \A c \in Runs :
        LET b == runs[c].owner
        IN  (/\ b # 0 /\ runs[b].owner # 0
             /\ runs[c].why = "call" /\ runs[c].pend)
            => /\ \A x \in {runs[b].owner, b, c} :
                     (runs[x].settled /\ Undisturbed(x))
                     => SettlementAborted(x) /\ RecordAborted(TaskOf(x))
               /\ value[TaskOf(runs[b].owner)] /\ value[TaskOf(b)]

\* C6: in a chain A execs B execs C with all three records PENDING,
\* abort() on C's record ends A, B and C ABORTED with an
\* AsyncTaskAbortError, keeps the values A and B committed in their exec
\* callbacks, and C's gated mutation is not executed after the abort.
C6_AbortInnermost == [][C6_ChainAborted' /\ NoGatedAfterAbort]_vars

\* C7: when a parent body awaits two exec calls in parallel and one child
\* settles FAILED with error e, the parent (not aborted) settles FAILED with
\* e and its record is FAILED with e; the sibling, on whose record nobody
\* called abort(), is not cancelled, settles COMPLETE, and its record is
\* COMPLETE with its gated mutation committed.
C7_ParallelFailure ==
    \A p, k, f \in Runs :
        (/\ store.name = "par"
         /\ runs[k].owner = p /\ runs[f].owner = p /\ k # f
         /\ runs[f].settled /\ runs[f].promise.st = FAILED
         /\ ~runs[p].aborted /\ runs[k].why # "call")
        => /\ runs[p].settled
                => /\ runs[p].promise.st = FAILED
                   /\ runs[p].promise.err = runs[f].promise.err
                   /\ Undisturbed(p)
                        => /\ status[TaskOf(p)] = FAILED
                           /\ error[TaskOf(p)] = runs[f].promise.err
           /\ ~runs[k].aborted
           /\ runs[k].settled
                => /\ runs[k].promise.st = COMPLETE
                   /\ status[TaskOf(k)] = COMPLETE
                   /\ value[TaskOf(k)]

\* the parallel parent has settled FAILED with the error of its failing
\* child while the sibling has settled COMPLETE with its value committed
C7_Witness ==
    /\ store.name = "par" /\ nRuns = 3
    /\ runs[1].settled /\ runs[1].promise.st = FAILED
    /\ status[1] = FAILED /\ error[1] = FailedError(3)
    /\ runs[2].owner = 1 /\ runs[2].settled /\ ~runs[2].aborted
    /\ status[2] = COMPLETE /\ value[2]
    /\ runs[3].owner = 1 /\ runs[3].settled /\ status[3] = FAILED

\* C8: abort propagation is synchronous and transitive: in every state
\* between two steps, every run whose controller listens to the signal of
\* an aborted run is itself aborted.
C8_AbortPropagates ==
    \A k \in Runs :
        (runs[k].parent # 0 /\ runs[runs[k].parent].aborted) => runs[k].aborted

\* abort() on the outermost record of a chain of three has aborted the two
\* runs chained below it
C8_Witness ==
    /\ nRuns = 3
    /\ runs[1].why = "call" /\ runs[1].aborted
    /\ runs[2].parent = 1 /\ runs[2].why = "parent" /\ runs[2].aborted
    /\ runs[3].parent = 2 /\ runs[3].why = "parent" /\ runs[3].aborted

\* a parent run p aborted by a call on its PENDING record, and a child k
\* started through its exec, PENDING when that abort reached it: once
\* settled, on records not run again or reset since, both records are
\* ABORTED
C9_ParentAndChildrenAborted ==
    \A p, k \in Runs :
        (/\ runs[k].owner = p
         /\ runs[p].why = "call" /\ runs[p].pend
         /\ runs[k].why = "parent" /\ runs[k].pend)
        => /\ (runs[p].settled /\ Undisturbed(p)) => status[TaskOf(p)] = ABORTED
           /\ (runs[k].settled /\ Undisturbed(k)) => status[TaskOf(k)] = ABORTED

\* C9: if a parent record is aborted while children started through its
\* exec are PENDING, the parent and every such child end ABORTED, and no
\* gated mutation of a child is executed after the abort.
C9_AbortParent == [][C9_ParentAndChildrenAborted' /\ NoGatedAfterAbort]_vars

\* the record's status is terminal, or its latest run has settled
RunSettled(t) ==
    \/ status[t] \in {COMPLETE, FAILED, ABORTED}
    \/ \E r \in Runs : TaskOf(r) = t /\ Latest(r) /\ runs[r].settled

\* C10: abort() on a record (a parent's, in particular) leaves unchanged the
\* status and error of every record whose run had already settled; the
\* only records it changes are PENDING ones, which become ABORTED.
C10_AbortSparesSettled ==
    [][\A t \in Task :
          Abort(t) =>
             \A u \in Task :
                /\ (RunSettled(u) \/ status[u] # PENDING)
                      => (status'[u] = status[u] /\ error'[u] = error[u])
                /\ (status'[u] # status[u] \/ error'[u] # error[u])
                      => (status[u] = PENDING /\ RecordAborted(u)')]_vars

\* the sequential parent was aborted after its first child had completed
\* and while its second child was PENDING: the first child's record is
\* still COMPLETE, the second child's and the parent's are ABORTED
C10_Witness ==
    /\ store.name = "seq" /\ nRuns = 3
    /\ runs[1].why = "call" /\ runs[1].pend /\ status[1] = ABORTED
    /\ runs[2].owner = 1 /\ runs[2].settled /\ ~runs[2].pend
    /\ runs[2].promise.st = COMPLETE
    /\ status[2] = COMPLETE /\ error[2] = NoErr
    /\ runs[3].owner = 1 /\ runs[3].why = "parent" /\ runs[3].pend
    /\ status[3] = ABORTED

\* the step resumes the body of run r after its sleep, and the body goes on
\* to its exec call (it does not throw before it)
ReachesExec(r) ==
    /\ runs[r].pc = "sleep" /\ runs[r].sleep = "resolved"
    /\ runs'[r].pc # "sleep"
    /\ ~store.body[TaskOf(r)].fail

\* exec's precondition holds for run r
GateOpen(r) ==
    alive[TaskOf(r)] /\ status[TaskOf(r)] = PENDING /\ ~runs[r].aborted

\* C11: exec invokes its callback only if, at the moment of the call, the
\* owning record is live, its status is PENDING and the run's scope is not
\* aborted; otherwise the body ends at once with an AsyncTaskAbortError
\* thrown by exec and the callback is not invoked.
C11_ExecGate ==
    [][/\ \A r \in Runs : runs'[r].cbs > runs[r].cbs => GateOpen(r)
       /\ \A r \in NewRuns : runs'[r].cbs > 0 => GateOpen(r)'
       /\ \A r \in Runs :
             (ReachesExec(r) /\ ~GateOpen(r))
             => /\ runs'[r].cbs = runs[r].cbs
                /\ runs'[r].pc = "done"
                /\ runs'[r].out = Thrown(AsyncTaskAbortError(TaskOf(r)))
                /\ value' = value]_vars

\* the body of a run whose store was destroyed during its sleep reached
\* exec with the record still PENDING and the scope not aborted: exec threw
\* an AsyncTaskAbortError and the callback was not invoked
C11_Witness ==
    \E r \in Runs :
        /\ ~alive[TaskOf(r)] /\ status[TaskOf(r)] = PENDING /\ ~runs[r].aborted
        /\ runs[r].pc = "done" /\ runs[r].cbs = 0
        /\ runs[r].out = Thrown(AsyncTaskAbortError(TaskOf(r)))
        /\ ~value[TaskOf(r)]

\* the settlement p carries a terminal status and the error that goes
\* with it
TerminalSettlement(p) ==
    /\ p.st \in {COMPLETE, FAILED, ABORTED}
    /\ p.st = COMPLETE => p.err = NoErr
    /\ p.st = FAILED => (p.err # NoErr /\ ~IsAbortError(p.err))
    /\ p.st = ABORTED => IsAbortError(p.err)

\* C12: every run whose body has terminated and whose runTask() has
\* returned gave a settlement with a terminal status and the matching
\* error, whether or not the store was destroyed during the run; once the
\* continuation of the body's end has run, the settlement is decided; and
\* a run whose body got an AsyncTaskAbortError from exec on a destroyed
\* store settles ABORTED with that error.
C12_AlwaysSettles ==
    \A r \in Runs :
        /\ runs[r].pc = "end" => runs[r].promise # Nil
        /\ runs[r].promise # Nil => TerminalSettlement(runs[r].promise)
        /\ (/\ ~alive[TaskOf(r)] /\ runs[r].pc = "end"
            /\ runs[r].out = Thrown(AsyncTaskAbortError(TaskOf(r))))
           => SettlementAborted(r)

\* a run on a destroyed store, never aborted, has settled ABORTED after
\* exec refused its callback, and the record, not updated, is still PENDING
C12_Witness ==
    \E r \in Runs :
        /\ ~alive[TaskOf(r)] /\ ~runs[r].aborted
        /\ runs[r].settled /\ SettlementAborted(r)
        /\ runs[r].cbs = 0 /\ runs[r].writes = 0
        /\ status[TaskOf(r)] = PENDING

\* C13: once the store of a record is not live, no run writes a status or
\* an error to the record: neither the abort listener nor the final write
\* of any run calls _resolve, and the record's status, error and
\* _abortController stay as they were.
C13_NoWriteWhenDead ==
    [][\A t \in Task :
          ~alive[t]
          => /\ status'[t] = status[t] /\ error'[t] = error[t]
             /\ ctrl'[t] = ctrl[t]
             /\ \A r \in Runs : TaskOf(r) = t
                                   => runs'[r].writes = runs[r].writes]_vars

\* on a destroyed store a run was aborted by abort() and has settled
\* ABORTED; its abort listener and its final write left the record PENDING
C13_Witness ==
    \E r \in Runs :
        /\ ~alive[TaskOf(r)]
        /\ runs[r].why = "call" /\ runs[r].aborted
        /\ runs[r].settled /\ SettlementAborted(r)
        /\ runs[r].writes = 0
        /\ status[TaskOf(r)] = PENDING /\ error[TaskOf(r)] = NoErr

C15_ThrowFails ==
    \A r \in Runs :
        (runs[r].settled /\ runs[r].out.st = "throw" /\ ~runs[r].aborted)
        => LET e == runs[r].out.err
               st == IF IsAbortError(e) THEN ABORTED ELSE FAILED
           IN  /\ runs[r].promise = AsyncTaskResult(st, e, "undefined")
               /\ (alive[TaskOf(r)] /\ Undisturbed(r))
                    => status[TaskOf(r)] = st /\ error[TaskOf(r)] = e

\* in the parallel store, run2's body threw 'failed' and its record is
\* FAILED with that error, while the parent, whose scope was not aborted,
\* got an AsyncTaskAbortError from the exec of the aborted run1 and is
\* ABORTED with it
C15_Witness ==
    \E p, k \in Runs :
        /\ runs[k].owner = p
        /\ runs[k].settled /\ ~runs[k].aborted
        /\ runs[k].out = Thrown(FailedError(TaskOf(k)))
        /\ status[TaskOf(k)] = FAILED /\ error[TaskOf(k)] = FailedError(TaskOf(k))
        /\ runs[p].settled /\ ~runs[p].aborted
        /\ runs[p].out.st = "throw" /\ IsAbortError(runs[p].out.err)
        /\ status[TaskOf(p)] = ABORTED /\ error[TaskOf(p)] = runs[p].out.err

C17_NoDanglingPending ==
    \A r \in Runs :
        (runs[r].settled /\ Latest(r) /\ alive[TaskOf(r)])
        => status[TaskOf(r)] # PENDING

C19_AbortKeepsPending ==
    [][\A t \in Task :
          (Abort(t) /\ status[t] = PENDING /\ alive[t])
          => /\ ctrl[t] # 0 /\ runs'[ctrl[t]].aborted
             /\ status'[t] = PENDING]_vars

\* C19, amended: abort() on a live PENDING record sets the aborted flag of
\* the record's active scope, and before abort() returns the abort listener
\* of the in-flight run, if it is still registered, sets the record ABORTED
\* with an AsyncTaskAbortError; if the listener was already removed, the
\* record's status and error are not changed.
C19_AbortFinalizesAtOnce ==
    [][\A t \in Task :
          (Abort(t) /\ status[t] = PENDING /\ alive[t])
          => /\ ctrl[t] # 0 /\ runs'[ctrl[t]].aborted
             /\ IF runs[ctrl[t]].listening
                THEN RecordAborted(t)'
                ELSE status'[t] = status[t] /\ error'[t] = error[t]]_vars

\* abort() was called on a PENDING record whose run is still asleep: the
\* record is already ABORTED while the run has not resumed since
C19_Witness ==
    \E r \in Runs :
        /\ Latest(r) /\ runs[r].why = "call" /\ runs[r].pend
        /\ runs[r].writes = 1 /\ ~runs[r].settled
        /\ runs[r].pc = "sleep" /\ runs[r].sleep = "pending"
        /\ RecordAborted(TaskOf(r))

\* C20: in the stricter generation, reset() on a PENDING record throws and
\* leaves status and error as they were; on a record in any other status it
\* returns normally, having set the status to INIT and cleared the error.
C20_StrictReset ==
    [][\A t \in Task :
          ResetStrict(t)
          => IF status[t] = PENDING
             THEN /\ thrown' = ResetWhilePending(t)
                  /\ status'[t] = PENDING
                  /\ error'[t] = error[t]
             ELSE /\ thrown' = NoErr
                  /\ status'[t] = INIT
                  /\ error'[t] = NoErr]_vars

\* reset() has thrown on the pending record of a later run, after an earlier
\* run has finished and written its outcome to the record
C20_Witness ==
    /\ thrown = ResetWhilePending(1)
    /\ status[1] = PENDING
    /\ nRuns >= 2
    /\ runs[1].settled
    /\ ~runs[nRuns].settled

\* the views of a status, in the order clean, pending, complete, failed, aborted
StatusViews(st) == <<clean(st), pending(st), complete(st), failed(st), aborted(st)>>
StatusOrder == <<INIT, PENDING, COMPLETE, FAILED, ABORTED>>

\* C21: for every status exactly one of clean, pending, complete, failed and
\* aborted is true, the one that matches the status; unresolved is true
\* exactly for INIT and PENDING; resolved is the negation of unresolved.
C21_Views ==
    \A t \in store.used :
        LET st == status[t]
        IN  /\ Cardinality({i \in 1..5 : StatusViews(st)[i]}) = 1
            /\ \A i \in 1..5 : StatusViews(st)[i] <=> st = StatusOrder[i]
            /\ unresolved(st) <=> st \in {INIT, PENDING}
            /\ resolved(st) <=> ~unresolved(st)

\* records in three different statuses, one of them unresolved
C21_Witness ==
    /\ status[1] = PENDING
    /\ status[2] = FAILED
    /\ status[3] = ABORTED
    /\ unresolved(status[1]) /\ resolved(status[2]) /\ aborted(status[3])

WrittenByActiveRun(t) ==
    /\ ctrl[t] # 0
    /\ runs'[ctrl[t]].writes = runs[ctrl[t]].writes + 1

\* C24: the status of a record changes only along the status machine: it
\* becomes PENDING only in a step that starts a run of the record, leaves
\* PENDING for COMPLETE, FAILED or ABORTED only by a write of the record's
\* active run, becomes INIT only by reset(), and never moves from INIT,
\* COMPLETE, FAILED or ABORTED to another terminal status directly.
C24_StatusMachine ==
    [][\A t \in store.used :
          /\ (status[t] # PENDING /\ status'[t] = PENDING)
                => \E r \in NewRuns : runs'[r].task = t
          /\ (status[t] = PENDING /\ status'[t] \in {COMPLETE, FAILED, ABORTED})
                => WrittenByActiveRun(t)
          /\ (status[t] # INIT /\ status'[t] = INIT) => Reset(t)
          /\ status[t] # PENDING => status'[t] \in {status[t], PENDING, INIT}]_vars

\* a record went INIT, PENDING, terminal twice over, then was reset
C24_Witness ==
    /\ nRuns = 2
    /\ runs[1].writes = 1 /\ runs[1].promise.st = FAILED
    /\ runs[2].writes = 1 /\ runs[2].promise.st = ABORTED
    /\ runs[1].settled /\ runs[2].settled
    /\ status[1] = INIT

\* the signal of run r is aborted in this step while abortHandler is still
\* registered on it (the body has not ended, or done() has not run yet)
AbortedWhileListening(r) ==
    /\ runs[r].listening
    /\ ~runs[r].aborted
    /\ runs'[r].aborted

\* the record of run r stays as abortHandler left it: no reset() and no new
\* run of the record in the same step
LeftAlone(r) ==
    /\ ~Reset(TaskOf(r))
    /\ \A q \in NewRuns : runs'[q].task # TaskOf(r)

ListeningImpliesPending ==
    \A r \in Runs : runs[r].listening => status[TaskOf(r)] = PENDING

\* no run calls _resolve() twice: abortHandler and the final write never
\* both write for the same run
AtMostOneWrite == \A r \in Runs : runs[r].writes <= 1

\* C26: each run writes a terminal status to its record at most once, and
\* exactly once when the record stays live and is neither reset nor run
\* again before the run settles.
C26_WritesOnce ==
    /\ AtMostOneWrite
    /\ \A r \in Runs :
          (runs[r].settled /\ alive[TaskOf(r)] /\ Undisturbed(r))
              => runs[r].writes = 1

\* the scope of run r was aborted while its record was live and PENDING,
\* and the body of r also ended by itself (it returned or threw)
AbortRacedCompletion(r) ==
    /\ runs[r].aborted
    /\ runs[r].pend
    /\ runs[r].out # Nil

\* C27: when an abort of a run's scope races with the return or throw of
\* the run's body on a live PENDING record, exactly one of the two writes a
\* terminal status, the record leaves PENDING and the run returns a
\* settlement, in every interleaving.
C27_RaceHasOneWinner ==
    \A r \in Runs :
        (AbortRacedCompletion(r) /\ runs[r].settled
            /\ alive[TaskOf(r)] /\ Undisturbed(r))
        => /\ runs[r].writes = 1
           /\ status[TaskOf(r)] # PENDING
           /\ TerminalSettlement(runs[r].promise)

\* run r has a body `return yield exec(cb)` whose exec passed its
\* precondition, and the body has ended
ExecAnswered(r) ==
    /\ store.body[TaskOf(r)].kind = "call"
    /\ runs[r].cbs = 1
    /\ runs[r].out # Nil

\* the run whose promise the callback of r's exec returned
AwaitedRun(r) == CHOOSE k \in Runs : runs[k].owner = r

\* C28: after its precondition passed, exec throws the error of an awaited
\* settlement that carries one, returns undefined for a settlement without
\* error, returns any other value unchanged, and rethrows unchanged an
\* error thrown by the callback.
C28_ExecResult ==
    \A r \in Runs :
        ExecAnswered(r)
        => LET cb == store.body[TaskOf(r)].cb
               out == runs[r].out
           IN  CASE cb = "value" -> out = Returned("ok")
                 [] cb = "throw" -> out = Thrown(CallbackError(TaskOf(r)))
                 [] OTHER ->
                      LET p == runs[AwaitedRun(r)].promise
                      IN  /\ runs[AwaitedRun(r)].settled
                          /\ p.err # NoErr => out = Thrown(p.err)
                          /\ p.err = NoErr => out = Returned("undefined")

\* exec awaited a run that settled COMPLETE with the value 'result', and
\* gave undefined to the body
C28_Witness ==
    \E r \in Runs :
        /\ ExecAnswered(r)
        /\ store.body[TaskOf(r)].cb = "kid"
        /\ runs[AwaitedRun(r)].promise = AsyncTaskResult(COMPLETE, NoErr, "result")
        /\ runs[r].out = Returned("undefined")
        /\ runs[r].settled /\ runs[r].promise.st = COMPLETE

\* the records whose task action the body of record t calls in its exec
\* callbacks
Kids(t) == {store.body[t].kids[i] : i \in 1..Len(store.body[t].kids)}

\* run q was started inside an exec callback (the task action of its record
\* is called by no one else)
StartedInCallback(q) == TaskOf(q) \notin store.entry

\* the run whose exec callback started q: the latest run, at the time q was
\* started, of the record whose body calls the task action of q's record
Starter(q) ==
    CHOOSE o \in Runs :
        /\ o < q
        /\ TaskOf(q) \in Kids(TaskOf(o))
        /\ \A x \in Runs : (x < q /\ TaskOf(q) \in Kids(TaskOf(x))) => x <= o

\* C29: every run started synchronously inside an exec callback is chained
\* to the scope of the run that owns the exec, so that an abort of that
\* scope aborts it, also when an earlier task started by the same callback
\* has called exec before its first suspension.
C29_CallbackRunsChained ==
    \A q \in Runs :
        StartedInCallback(q)
        => /\ runs[q].parent = Starter(q)
           /\ runs[Starter(q)].aborted => runs[q].aborted

\* the run that awaits a run in its exec is the one that started it
OwnerIsStarter ==
    \A q \in Runs : runs[q].owner # 0 => runs[q].owner = Starter(q)

\* C30: parentAbortSignal is null in every state between two synchronous
\* steps, also after an exec callback has thrown; a run is chained to no
\* scope other than that of the exec whose callback started it, and a run
\* started outside any exec callback is chained to no scope.
C30_AmbientScope ==
    /\ parentAbortSignal = 0
    /\ \A q \in Runs :
          /\ runs[q].parent # 0
                => (StartedInCallback(q) /\ runs[q].parent = Starter(q))
          /\ ~StartedInCallback(q) => runs[q].parent = 0

\* an exec callback has thrown, and the task action was called again from
\* outside afterwards
C30_Witness ==
    /\ store.body[1].cb = "throw"
    /\ nRuns >= 2
    /\ runs[1].exErr = CallbackError(1)
    /\ runs[1].settled /\ runs[1].promise.st = FAILED
    /\ runs[2].cbs = 1 /\ runs[2].parent = 0
    /\ parentAbortSignal = 0

\* C31: if the scope of a run is aborted while its record is live and
\* PENDING, the run's settlement is ABORTED and the record ends ABORTED
\* (until a reset or a new run), whatever the body does afterwards, also
\* when it catches the cancellation and returns normally or throws another
\* error.
C31_AbortBeatsBody ==
    \A r \in Runs :
        (runs[r].aborted /\ runs[r].pend /\ alive[TaskOf(r)])
        => /\ runs[r].promise # Nil => SettlementAborted(r)
           /\ Undisturbed(r) => RecordAborted(TaskOf(r))

\* a body that swallowed the rejection of its sleep after an abort and then
\* returned normally: its run settled ABORTED, its record is ABORTED
AbortedBodyReturned ==
    \E r \in Runs :
        /\ runs[r].aborted /\ runs[r].pend /\ runs[r].why = "call"
        /\ store.body[TaskOf(r)].kind = "free"
        /\ runs[r].raw /\ runs[r].out = Returned("result")
        /\ runs[r].settled /\ SettlementAborted(r)
        /\ Undisturbed(r) /\ RecordAborted(TaskOf(r))

\* run r has a body that catches what its exec rethrows, the run k that
\* the exec awaited has settled FAILED, the body has returned, and neither
\* scope was aborted
CaughtFailure(r, k) ==
    /\ store.body[TaskOf(r)].kind = "try"
    /\ runs[k].owner = r
    /\ runs[k].settled /\ runs[k].promise.st = FAILED
    /\ runs[r].out # Nil
    /\ ~runs[r].aborted /\ ~runs[k].aborted

\* C32: a body that catches the error that exec rethrows from a nested task
\* that settled FAILED, and then returns normally, makes the enclosing run
\* settle COMPLETE and its record COMPLETE, while the nested record stays
\* FAILED (no scope being aborted meanwhile).
C32_CaughtFailureCompletes ==
    \A r \in Runs : \A k \in Runs :
        CaughtFailure(r, k)
        => /\ runs[r].out = Returned("result")
           /\ runs[r].promise # Nil => runs[r].promise.st = COMPLETE
           /\ (runs[r].settled /\ Undisturbed(r)) => status[TaskOf(r)] = COMPLETE
           /\ Latest(k) => /\ status[TaskOf(k)] = FAILED
                           /\ error[TaskOf(k)] = runs[k].promise.err

C32_Witness ==
    \E r \in Runs : \E k \in Runs :
        /\ CaughtFailure(r, k)
        /\ runs[r].exErr = FailedError(TaskOf(k))
        /\ runs[r].settled /\ runs[r].promise = AsyncTaskResult(COMPLETE, NoErr, "result")
        /\ status[TaskOf(r)] = COMPLETE /\ error[TaskOf(r)] = NoErr
        /\ status[TaskOf(k)] = FAILED

\* the step aborts the scope of run r
ScopeAborted(r) == ~runs[r].aborted /\ runs'[r].aborted

\* how a body that calls no exec ends
FreeOutcome(t) ==
    IF store.body[t].fail THEN Thrown(FailedError(t)) ELSE Returned(store.body[t].ret)

\* C33: cancellation is cooperative.  The step that aborts a run leaves its
\* body where it is (it only rejects a sleep that listens to the signal); a
\* body that calls no exec goes on after the abort, makes its write of
\* self.value and ends as it would have without the abort; a body whose
\* last statement is an exec call is ended, after the abort, by the
\* AsyncTaskAbortError of that call, by the rejection of its sleep on the
\* signal, or by the error it throws itself before the call.
C33_Cooperative ==
    [][\A r \in Runs :
          LET t == TaskOf(r)
              b == store.body[t]
          IN  /\ ScopeAborted(r)
                    => /\ runs'[r].pc = runs[r].pc
                       /\ runs'[r].out = runs[r].out
                       /\ runs'[r].sleep # runs[r].sleep
                             => (b.sleep = "signal" /\ runs'[r].sleep = "rejected")
              /\ (runs[r].aborted /\ runs[r].out = Nil /\ runs'[r].out # Nil)
                    => IF b.kind = "free"
                       THEN /\ runs'[r].raw /\ value'[t]
                            /\ runs'[r].out = FreeOutcome(t)
                       ELSE b.kind = "leaf"
                            => /\ runs'[r].cbs = runs[r].cbs
                               /\ \/ runs'[r].out = Thrown(AsyncTaskAbortError(t))
                                  \/ /\ runs'[r].out = Thrown(SleepAborted(t))
                                     /\ b.sleep = "signal"
                                  \/ /\ runs'[r].out = Thrown(FailedError(t))
                                     /\ b.fail]_vars

\* a body without exec was resumed by the rejection of its sleep, that is,
\* after the abort, made its write and returned; its run settled ABORTED
C33_Witness ==
    \E r \in Runs :
        /\ store.body[TaskOf(r)].kind = "free"
        /\ runs[r].aborted /\ runs[r].sleep = "rejected"
        /\ runs[r].raw /\ value[TaskOf(r)]
        /\ runs[r].out = Returned("result")
        /\ runs[r].settled /\ SettlementAborted(r)


\* C34: the step in which a call on the record (abort(), reset(), or a new
\* run) aborts the scope of a run that has not settled yet resolves the
\* run's promise with an ABORTED settlement, wherever the body is; the
\* settlement can then be delivered without any further step of the body.
C34_AbortSettlesAtOnce ==
    [][\A r \in Runs :
          (ScopeAborted(r) /\ runs'[r].why = "call" /\ ~runs[r].settled)
          => /\ runs'[r].promise # Nil
             /\ runs'[r].promise.st = ABORTED
             /\ IsAbortError(runs'[r].promise.err)
             /\ runs'[r].pc = runs[r].pc]_vars

\* the settlement of an aborted run was delivered, ABORTED, while its body
\* still waits for a timer that has not fired
SettledBeforeBody ==
    \E r \in Runs :
        /\ runs[r].aborted /\ runs[r].why = "call"
        /\ runs[r].pc = "sleep" /\ runs[r].sleep = "pending"
        /\ runs[r].settled /\ SettlementAborted(r)


\* run q is run k or a run chained, directly or not, to the scope of run k
RECURSIVE Within(_, _)
Within(q, k) == q = k \/ (q # 0 /\ runs[q].parent # 0 /\ Within(runs[q].parent, k))

\* C35: abort() on the record of a nested run aborts the scope of that run
\* and of the runs chained below it and of no other run: the scope of the
\* enclosing run keeps its aborted flag, and the records of the other tasks
\* the enclosing run started keep their status and their controller.
C35_NoUpwardAbort ==
    [][\A t \in Task :
          LET k == ctrl[t]
          IN  (k # 0 /\ runs[k].owner # 0 /\ Abort(t))
              => /\ \A r \in Runs :
                       ~Within(r, k) => runs'[r].aborted = runs[r].aborted
                 /\ \A u \in Task :
                       (\A q \in Runs : Within(q, k) => TaskOf(q) # u)
                       => (status'[u] = status[u] /\ ctrl'[u] = ctrl[u])]_vars

\* one of two tasks started in parallel was aborted: the enclosing run got
\* the AsyncTaskAbortError from exec and settled ABORTED with its scope
\* never aborted, and the other task is still PENDING, its scope not aborted
C35_Witness ==
    /\ store.name = "par"
    /\ nRuns = 3
    /\ runs[2].owner = 1 /\ runs[3].owner = 1
    /\ runs[2].aborted /\ runs[2].why = "call" /\ RecordAborted(2)
    /\ ~runs[1].aborted
    /\ runs[1].settled /\ SettlementAborted(1)
    /\ ~runs[3].aborted /\ status[3] = PENDING /\ ctrl[3] = 3


\* the runs of record t that have not settled and whose scope is not aborted
ActiveRuns(t) ==
    {r \in Runs : TaskOf(r) = t /\ ~runs[r].settled /\ ~runs[r].aborted}

\* C36: every record has at most one run that has not settled and whose
\* scope is not aborted, and that run's controller is the record's
\* _abortController.
C36_OneActiveRun ==
    \A t \in Task :
        /\ Cardinality(ActiveRuns(t)) <= 1
        /\ \A r \in ActiveRuns(t) : ctrl[t] = r

\* a record was run three times while PENDING: the two superseded runs have
\* aborted scopes and have not settled yet, the third is the active one
C36_Witness ==
    \E t \in Task :
        /\ nRuns = 3
        /\ \A r \in 1..3 : TaskOf(r) = t /\ ~runs[r].settled
        /\ runs[1].aborted /\ runs[2].aborted
        /\ ActiveRuns(t) = {3} /\ ctrl[t] = 3


\* C37: a step invokes an exec callback of a run only if that run is its
\* record's current controller with a scope that is not aborted and the
\* record is PENDING, at the call and after it; so a run that was aborted,
\* superseded or reset has no callback invoked from then on.
C37_OnlyActiveRunCalls ==
    [][\A r \in RunId :
          runs'[r].cbs > runs[r].cbs
          => LET t == runs'[r].task
             IN  /\ ctrl'[t] = r /\ ~runs'[r].aborted /\ status'[t] = PENDING
                 /\ r \in Runs
                       => (ctrl[t] = r /\ ~runs[r].aborted /\ status[t] = PENDING)]_vars

\* a superseded run reached its exec while the record was PENDING on behalf
\* of the newer run, whose body had not reached its own exec yet: the call
\* threw AsyncTaskAbortError and invoked no callback
C37_Witness ==
    \E t \in Task :
        /\ nRuns >= 2
        /\ TaskOf(1) = t /\ TaskOf(2) = t
        /\ runs[1].aborted /\ runs[1].why = "call"
        /\ runs[1].out = Thrown(AsyncTaskAbortError(t)) /\ runs[1].cbs = 0
        /\ status[t] = PENDING /\ ctrl[t] = 2
        /\ runs[2].pc = "sleep" /\ ~runs[2].aborted


\* the step writes a terminal status to the record of run r on its behalf
\* (line 137 or line 157)
WritesRecord(r) == runs'[r].writes > runs[r].writes

\* the step delivers the settlement of run r (line 160)
Delivers(r) == ~runs[r].settled /\ runs'[r].settled

\* C38: the status and error a run writes to its record (as the record
\* shows them at the end of the step, unless the same call goes on to reset
\* or re-run the record) are those of the settlement it returns; and when a settlement is delivered while the
\* record is live and was neither reset nor run again since the run began,
\* the record's status is the settlement's status.
C38_RecordMatchesSettlement ==
    [][\A r \in Runs :
          LET t == TaskOf(r)
          IN  /\ (WritesRecord(r) /\ LeftAlone(r))
                    => /\ runs'[r].promise # Nil
                       /\ status'[t] = runs'[r].promise.st
                       /\ error'[t] = runs'[r].promise.err
              /\ (Delivers(r) /\ alive'[t] /\ Undisturbed(r)')
                    => status'[t] = runs'[r].promise.st]_vars

\* the first half of C38 alone: what a run writes is what it returns
WrittenIsReturned ==
    [][\A r \in Runs :
          (WritesRecord(r) /\ LeftAlone(r))
          => /\ runs'[r].promise # Nil
             /\ status'[TaskOf(r)] = runs'[r].promise.st
             /\ error'[TaskOf(r)] = runs'[r].promise.err]_vars

====
